---- MODULE Spec2Model ----
(***************************************************************************)
(* Model of the blockchain-rs codec: VarInt, the transaction record        *)
(* family, BlockHeader, Block<T> and the merkle-root computation.          *)
(*                                                                         *)
(* Integers wider than TLC's own are kept as little-endian tuples of       *)
(* 16-bit limbs: a u32 is <<lo, hi>>, a u64 is <<l0, l1, l2, l3>>.  Byte   *)
(* buffers (Vec<u8>, &[u8]) are sequences of 0..255.  A reader is a buffer *)
(* with the 1-based position of its next unread byte.                      *)
(***************************************************************************)
EXTENDS Integers, Sequences, FiniteSets, TLC

VARIABLES input, block, buffer, tamper, result, pc,
          built,       \* the block as Block::new returned it
          nonce_arg    \* the argument of the latest set_nonce call, <<>> before the first

vars == <<input, block, buffer, tamper, result, pc, built, nonce_arg>>

----------------------------------------------------------------------------
(* Bounds of the model *)

\* longest script: 253 is the first length whose VarInt prefix takes the 0xFD form
LongScriptLen == 253
\* most inputs, and most outputs, of a generated transaction
MaxIO == 2
\* most leaves handed to calculate_merkle
MaxLeaves == 4
\* most payloads handed to Block::new
MaxPayloads == 3

----------------------------------------------------------------------------
(* Fixed-width integers *)

Limb == 65536

U16Of(n) == n % Limb
U32Of(n) == <<n % Limb, (n \div Limb) % Limb>>
U64Of(n) == <<n % Limb, (n \div Limb) % Limb, 0, 0>>

\* value as u8 / as u16 / as u32 of a u64
AsU8(v) == v[1] % 256
AsU16(v) == v[1]
AsU32(v) == <<v[1], v[2]>>
\* u16 / u32 as u64
U16AsU64(l) == <<l, 0, 0, 0>>
U32AsU64(w) == <<w[1], w[2], 0, 0>>

\* the value fits the usize range the model's buffers live in (below 65536)
Small(v) == v[2] = 0 /\ v[3] = 0 /\ v[4] = 0

----------------------------------------------------------------------------
(* byteorder::WriteBytesExt on a Vec<u8>: the bytes appended *)

write_u8(b) == <<b>>
write_u16(l) == <<l % 256, l \div 256>>
write_u32(w) == write_u16(w[1]) \o write_u16(w[2])
write_u64(v) == write_u16(v[1]) \o write_u16(v[2]) \o write_u16(v[3]) \o write_u16(v[4])

(* Results of the fallible reads: st is "ok", "eof" (io::ErrorKind::       *)
(* UnexpectedEof) or "panic" (the process is torn down); pos is the        *)
(* reader's position after a successful read.                              *)
Ok(v, p) == [st |-> "ok", val |-> v, pos |-> p]
Eof == [st |-> "eof", val |-> <<>>, pos |-> 0]
Panic == [st |-> "panic", val |-> <<>>, pos |-> 0]
Fail(r) == [st |-> r.st, val |-> <<>>, pos |-> 0]

\* `let x = r?; rest`: an error of r is returned at once, otherwise the
\* rest runs with the value read and the reader where r left it
Try(r, rest(_)) == IF r.st # "ok" THEN Fail(r) ELSE rest(r)

\* std::io::Read::read_exact for &[u8], n a plain length
read_exact(buf, pos, n) ==
    IF pos + n - 1 <= Len(buf)
    THEN Ok(SubSeq(buf, pos, pos + n - 1), pos + n)
    ELSE Eof

read_u8(buf, pos) ==
    Try(read_exact(buf, pos, 1), LAMBDA r : Ok(r.val[1], r.pos))

read_u16(buf, pos) ==
    Try(read_exact(buf, pos, 2), LAMBDA r : Ok(r.val[1] + 256 * r.val[2], r.pos))

read_u32(buf, pos) ==
    Try(read_exact(buf, pos, 4), LAMBDA r :
        Ok(<<r.val[1] + 256 * r.val[2], r.val[3] + 256 * r.val[4]>>, r.pos))

read_u64(buf, pos) ==
    Try(read_exact(buf, pos, 8), LAMBDA r :
        Ok(<<r.val[1] + 256 * r.val[2], r.val[3] + 256 * r.val[4],
             r.val[5] + 256 * r.val[6], r.val[7] + 256 * r.val[8]>>, r.pos))

(* `let mut v = vec![0; len as usize]; reader.read_exact(v.as_mut_slice())?` *)
(* with a u64 length.  A length above isize::MAX makes vec! panic with     *)
(* "capacity overflow"; any other length beyond the bytes left is an       *)
(* UnexpectedEof from read_exact.                                          *)
\* read() in place of read_exact(): whatever is left is taken for the whole
read_vec_short(buf, pos, len) ==
    IF Small(len) /\ pos + len[1] - 1 <= Len(buf)
    THEN read_exact(buf, pos, len[1])
    ELSE Ok(SubSeq(buf, pos, Len(buf)), Len(buf) + 1)

read_vec(buf, pos, len) ==
    IF Small(len) THEN read_exact(buf, pos, len[1])
    ELSE IF len[4] >= 32768 THEN Panic
    ELSE Eof

----------------------------------------------------------------------------
(* util.rs: VarInt *)

\* the 1-byte form stops one short: 252 takes the 0xFD form
VarInt_serialize_strict(value) ==
    IF Small(value) /\ value[1] < 252
    THEN write_u8(AsU8(value))
    ELSE IF Small(value)
    THEN write_u8(253) \o write_u16(AsU16(value))
    ELSE IF value[3] = 0 /\ value[4] = 0
    THEN write_u8(254) \o write_u32(AsU32(value))
    ELSE write_u8(255) \o write_u64(value)

VarInt_serialize(value) ==
    IF Small(value) /\ value[1] <= 252
    THEN write_u8(AsU8(value))
    ELSE IF Small(value)
    THEN write_u8(253) \o write_u16(AsU16(value))
    ELSE IF value[3] = 0 /\ value[4] = 0
    THEN write_u8(254) \o write_u32(AsU32(value))
    ELSE write_u8(255) \o write_u64(value)

\* the 0xFE form is read with the width of the 0xFD form
VarInt_deserialize_narrow(buf, pos) ==
    Try(read_u8(buf, pos), LAMBDA first_byte :
        IF first_byte.val = 253 \/ first_byte.val = 254
        THEN Try(read_u16(buf, first_byte.pos), LAMBDA r : Ok(U16AsU64(r.val), r.pos))
        ELSE IF first_byte.val = 255
        THEN read_u64(buf, first_byte.pos)
        ELSE Ok(<<first_byte.val, 0, 0, 0>>, first_byte.pos))

VarInt_deserialize(buf, pos) ==
    Try(read_u8(buf, pos), LAMBDA first_byte :
        IF first_byte.val = 253
        THEN Try(read_u16(buf, first_byte.pos), LAMBDA r : Ok(U16AsU64(r.val), r.pos))
        ELSE IF first_byte.val = 254
        THEN Try(read_u32(buf, first_byte.pos), LAMBDA r : Ok(U32AsU64(r.val), r.pos))
        ELSE IF first_byte.val = 255
        THEN read_u64(buf, first_byte.pos)
        ELSE Ok(<<first_byte.val, 0, 0, 0>>, first_byte.pos))

----------------------------------------------------------------------------
(* transaction.rs: Outpoint, Input, Output, Transaction *)

Outpoint_serialize(self) == self.hash \o write_u32(self.index)

Outpoint_deserialize(buf, pos) ==
    Try(read_exact(buf, pos, 32), LAMBDA hash :
    Try(read_u32(buf, hash.pos), LAMBDA index :
    Ok([hash |-> hash.val, index |-> index.val], index.pos)))

Input_new(prev_hash, prev_seq, script, sequence_no) ==
    [prev_hash |-> [hash |-> prev_hash, index |-> prev_seq],
     txin_script |-> script,
     sequence_no |-> sequence_no]

Input_serialize(self) ==
    Outpoint_serialize(self.prev_hash)
    \o VarInt_serialize(U64Of(Len(self.txin_script)))
    \o self.txin_script
    \o write_u32(self.sequence_no)

Input_deserialize(buf, pos) ==
    Try(Outpoint_deserialize(buf, pos), LAMBDA prev_hash :
    Try(VarInt_deserialize(buf, prev_hash.pos), LAMBDA txin_script_length :
    Try(read_vec(buf, txin_script_length.pos, txin_script_length.val), LAMBDA txin_script :
    Try(read_u32(buf, txin_script.pos), LAMBDA sequence_no :
    Ok([prev_hash |-> prev_hash.val,
        txin_script |-> txin_script.val,
        sequence_no |-> sequence_no.val],
       sequence_no.pos)))))

Output_new(value, script) == [value |-> value, txout_script |-> script]

Output_serialize(self) ==
    write_u64(self.value)
    \o VarInt_serialize(U64Of(Len(self.txout_script)))
    \o self.txout_script

Output_deserialize(buf, pos) ==
    Try(read_u64(buf, pos), LAMBDA value :
    Try(VarInt_deserialize(buf, value.pos), LAMBDA txout_script_length :
    Try(read_vec(buf, txout_script_length.pos, txout_script_length.val), LAMBDA txout_script :
    Ok([value |-> value.val, txout_script |-> txout_script.val],
       txout_script.pos))))

Transaction_new(version, inputs, outputs, lock_time) ==
    [version |-> version, inputs |-> inputs, outputs |-> outputs,
     lock_time |-> lock_time]

\* `for input in &self.inputs { buffer.write_all(input.serialize()?...) }`
RECURSIVE SerializeInputs(_)
SerializeInputs(inputs) ==
    IF inputs = <<>> THEN <<>>
    ELSE Input_serialize(Head(inputs)) \o SerializeInputs(Tail(inputs))

RECURSIVE SerializeOutputs(_)
SerializeOutputs(outputs) ==
    IF outputs = <<>> THEN <<>>
    ELSE Output_serialize(Head(outputs)) \o SerializeOutputs(Tail(outputs))

Transaction_serialize(self) ==
    write_u32(self.version)
    \o VarInt_serialize(U64Of(Len(self.inputs)))
    \o SerializeInputs(self.inputs)
    \o VarInt_serialize(U64Of(Len(self.outputs)))
    \o SerializeOutputs(self.outputs)
    \o write_u32(self.lock_time)

\* iterations of `for _ in 0..n` for a u64 n; every iteration of the loops
\* below consumes input, so a count of 65536 or more outlasts any buffer
LoopCount(n) == IF Small(n) THEN n[1] ELSE Limb

\* `for _ in 0..input_length.0 { inputs.push(Input::deserialize(reader)?) }`
RECURSIVE DeserializeInputs(_, _, _, _)
DeserializeInputs(buf, pos, n, inputs) ==
    IF n = 0 THEN Ok(inputs, pos)
    ELSE Try(Input_deserialize(buf, pos), LAMBDA r :
             DeserializeInputs(buf, r.pos, n - 1, Append(inputs, r.val)))

\* every parsed output is put in front of the ones parsed before it
RECURSIVE DeserializeOutputs_prepend(_, _, _, _)
DeserializeOutputs_prepend(buf, pos, n, outputs) ==
    IF n = 0 THEN Ok(outputs, pos)
    ELSE Try(Output_deserialize(buf, pos), LAMBDA r :
             DeserializeOutputs_prepend(buf, r.pos, n - 1, <<r.val>> \o outputs))

RECURSIVE DeserializeOutputs(_, _, _, _)
DeserializeOutputs(buf, pos, n, outputs) ==
    IF n = 0 THEN Ok(outputs, pos)
    ELSE Try(Output_deserialize(buf, pos), LAMBDA r :
             DeserializeOutputs(buf, r.pos, n - 1, Append(outputs, r.val)))

Transaction_deserialize(buf, pos) ==
    Try(read_u32(buf, pos), LAMBDA version :
    Try(VarInt_deserialize(buf, version.pos), LAMBDA input_length :
    Try(DeserializeInputs(buf, input_length.pos, LoopCount(input_length.val), <<>>),
        LAMBDA inputs :
    Try(VarInt_deserialize(buf, inputs.pos), LAMBDA output_length :
    Try(DeserializeOutputs(buf, output_length.pos, LoopCount(output_length.val), <<>>),
        LAMBDA outputs :
    Try(read_u32(buf, outputs.pos), LAMBDA lock_time :
    Ok([version |-> version.val,
        inputs |-> inputs.val,
        outputs |-> outputs.val,
        lock_time |-> lock_time.val],
       lock_time.pos)))))))

----------------------------------------------------------------------------
(* util.rs: hashing.  ring's SHA-256 is an external primitive; it is       *)
(* modelled as a deterministic digest of 32 bytes that depends on every    *)
(* byte of the data, on their order and on their number.                   *)

DigestLen == 32
DigestModuli == <<32749, 32719>>

\* <<h, p>> for data[lo..hi]: h the base-31 polynomial of the bytes (each
\* taken plus one) modulo m, p the power of 31 that shifts past them
RECURSIVE Absorb(_, _, _, _)
Absorb(data, lo, hi, m) ==
    IF lo > hi THEN <<0, 1>>
    ELSE IF lo = hi THEN <<(data[lo] + 1) % m, 31 % m>>
    ELSE LET mid == (lo + hi) \div 2
             l == Absorb(data, lo, mid, m)
             r == Absorb(data, mid + 1, hi, m)
         IN <<(l[1] * r[2] + r[1]) % m, (l[2] * r[2]) % m>>

single_hash(data) ==
    LET a == Absorb(data, 1, Len(data), DigestModuli[1])[1]
        b == Absorb(data, 1, Len(data), DigestModuli[2])[1]
        q == <<a % 256, a \div 256, b % 256, b \div 256>>
    IN [i \in 1..DigestLen |->
          (q[((i - 1) % 4) + 1] * (2 * ((i - 1) \div 4) + 1) + i) % 256]

double_hash(data) == single_hash(single_hash(data))

----------------------------------------------------------------------------
(* util.rs: merkle root *)

\* an unpaired last hash is hashed alone instead of with a copy of itself
RECURSIVE HashChunks_alone(_)
HashChunks_alone(values) ==
    IF values = <<>> THEN <<>>
    ELSE IF Len(values) = 1
    THEN <<double_hash(values[1])>>
    ELSE <<double_hash(values[1] \o values[2])>>
         \o HashChunks_alone(SubSeq(values, 3, Len(values)))

\* the `for chunk in values.chunks(2)` loop of concat_and_hash
RECURSIVE HashChunks(_)
HashChunks(values) ==
    IF values = <<>> THEN <<>>
    ELSE IF Len(values) = 1
    THEN <<double_hash(values[1] \o values[1])>>
    ELSE <<double_hash(values[1] \o values[2])>>
         \o HashChunks(SubSeq(values, 3, Len(values)))

\* a level of one hash is returned as the root without a reduction step
RECURSIVE concat_and_hash_single(_)
concat_and_hash_single(values) ==
    IF Len(values) = 1 THEN values[1]
    ELSE LET hashes == HashChunks(values)
         IN IF Len(hashes) = 1 THEN hashes[1] ELSE concat_and_hash_single(hashes)

RECURSIVE concat_and_hash(_)
concat_and_hash(values) ==
    LET hashes == HashChunks(values)
    IN IF Len(hashes) = 1 THEN hashes[1] ELSE concat_and_hash(hashes)

\* the empty list is hashed once, not twice
calculate_merkle_once(data) ==
    IF data = <<>> THEN single_hash(<<>>)
    ELSE concat_and_hash([i \in 1..Len(data) |-> double_hash(data[i])])

calculate_merkle(data) ==
    IF data = <<>> THEN double_hash(<<>>)
    ELSE concat_and_hash([i \in 1..Len(data) |-> double_hash(data[i])])

----------------------------------------------------------------------------
(* block.rs: BlockHeader *)

\* 0xD9B4BEF9
BLOCK_MAGIC_NUMBER == <<48889, 55732>>

BlockHeader_serialize(self) ==
    write_u32(self.version)
    \o self.previous_hash
    \o self.merkle_root_hash
    \o write_u32(self.timestamp)
    \o write_u32(self.bits)
    \o write_u32(self.nonce)

BlockHeader_deserialize(buf, pos) ==
    Try(read_u32(buf, pos), LAMBDA version :
    Try(read_exact(buf, version.pos, 32), LAMBDA previous_hash :
    Try(read_exact(buf, previous_hash.pos, 32), LAMBDA merkle_root_hash :
    Try(read_u32(buf, merkle_root_hash.pos), LAMBDA timestamp :
    Try(read_u32(buf, timestamp.pos), LAMBDA bits :
    Try(read_u32(buf, bits.pos), LAMBDA nonce :
    Ok([version |-> version.val,
        previous_hash |-> previous_hash.val,
        merkle_root_hash |-> merkle_root_hash.val,
        timestamp |-> timestamp.val,
        bits |-> bits.val,
        nonce |-> nonce.val],
       nonce.pos)))))))

----------------------------------------------------------------------------
(* block.rs: Block<T>.  The payload type T of the model is Output, a       *)
(* Clone + Serializable record of the repository.                          *)

T_serialize(value) == Output_serialize(value)
T_deserialize(buf, pos) == Output_deserialize(buf, pos)

\* `for value in values { data.push(value.serialize()?) }`
SerializeValues(values) == [i \in 1..Len(values) |-> T_serialize(values[i])]

\* the merkle root is taken over the payloads in reverse order
Block_new_reversed(version, previous_hash, values, bits, now) ==
    LET data == SerializeValues(values)
        merkle == calculate_merkle([i \in 1..Len(data) |-> data[Len(data) + 1 - i]])
    IN [header |-> [version |-> version,
                    previous_hash |-> previous_hash,
                    merkle_root_hash |-> merkle,
                    timestamp |-> now,
                    bits |-> bits,
                    nonce |-> U32Of(0)],
        data |-> values]

Block_new(version, previous_hash, values, bits, now) ==
    LET data == SerializeValues(values)
        merkle == calculate_merkle(data)
    IN [header |-> [version |-> version,
                    previous_hash |-> previous_hash,
                    merkle_root_hash |-> merkle,
                    timestamp |-> now,
                    bits |-> bits,
                    nonce |-> U32Of(0)],
        data |-> values]

\* the value lands in the neighbouring header field
Block_set_nonce_bits(self, nonce) ==
    [self EXCEPT !.header.bits = nonce]

Block_set_nonce(self, nonce) ==
    [self EXCEPT !.header.nonce = nonce]

\* `for item in self.data.iter() { buffer.write_all(item.serialize()?...) }`
RECURSIVE WriteItems(_)
WriteItems(data) ==
    IF data = <<>> THEN <<>>
    ELSE T_serialize(Head(data)) \o WriteItems(Tail(data))

\* the length placeholder is never written back
Block_serialize_unpatched(self) ==
    write_u32(BLOCK_MAGIC_NUMBER)
    \o write_u32(U32Of(0))
    \o BlockHeader_serialize(self.header)
    \o VarInt_serialize(U64Of(Len(self.data)))
    \o WriteItems(self.data)

Block_serialize(self) ==
    LET written == write_u32(BLOCK_MAGIC_NUMBER)
                   \o write_u32(U32Of(0))
                   \o BlockHeader_serialize(self.header)
                   \o VarInt_serialize(U64Of(Len(self.data)))
                   \o WriteItems(self.data)
        size == U32Of(Len(written) - 8)
    IN SubSeq(written, 1, 4) \o write_u32(size) \o SubSeq(written, 9, Len(written))

(* `for _ in 0..data_size.0 { data.push(T::deserialize(buffer.as_mut_slice())?) }`: *)
(* every iteration parses from the start of the working buffer.  A count   *)
(* of 65536 or more whose parse succeeds keeps pushing until the           *)
(* allocator gives up, which tears the process down.                       *)
RECURSIVE ReadItems(_, _, _)
ReadItems(buf, n, data) ==
    IF n = 0 THEN Ok(data, 1)
    ELSE Try(T_deserialize(buf, 1), LAMBDA r :
             ReadItems(buf, n - 1, Append(data, r.val)))

\* Block::deserialize up to the end of its loop: the locals `header`,
\* `data_size` and `data` as they stand before the result is assembled
Block_deserialize_locals(data) ==
    Try(read_u32(data, 1), LAMBDA magic :
        IF magic.val # BLOCK_MAGIC_NUMBER THEN Panic
        ELSE
    Try(read_u32(data, magic.pos), LAMBDA size :
    Try(read_vec(data, size.pos, U32AsU64(size.val)), LAMBDA buf :
    Try(BlockHeader_deserialize(buf.val, 1), LAMBDA header :
    Try(VarInt_deserialize(buf.val, 1), LAMBDA data_size :
    Try(IF Small(data_size.val)
        THEN ReadItems(buf.val, data_size.val[1], <<>>)
        ELSE Try(T_deserialize(buf.val, 1), LAMBDA r : Panic),
        LAMBDA items :
    Ok([header |-> header.val, data_size |-> data_size.val, data |-> items.val],
       buf.pos)))))))

\* `Ok(Block { header: header, data: Vec::new() })`
Block_deserialize(data) ==
    Try(Block_deserialize_locals(data), LAMBDA locals :
    Ok([header |-> locals.val.header, data |-> <<>>], locals.pos))

----------------------------------------------------------------------------
(* Inputs the callers supply *)

SeqsUpTo(S, n) == UNION {[1..k -> S] : k \in 0..n}

\* u64 values: 0, 212, 252, 253, 515, 65535, 65536, 100000, 4294967295,
\* 4294967296, 10000000000, 18446744073709551615
VarIntValues ==
    {<<0, 0, 0, 0>>, <<212, 0, 0, 0>>, <<252, 0, 0, 0>>, <<253, 0, 0, 0>>,
     <<515, 0, 0, 0>>, <<65535, 0, 0, 0>>, <<0, 1, 0, 0>>, <<34464, 1, 0, 0>>,
     <<65535, 65535, 0, 0>>, <<0, 0, 1, 0>>, <<58368, 21515, 2, 0>>,
     <<65535, 65535, 65535, 65535>>}

\* u32 values: 0, 1, 4294967295
U32Values == {<<0, 0>>, <<1, 0>>, <<65535, 65535>>}

\* the previous-transaction hash of the test fixtures
FixtureHash ==
    <<109, 189, 219, 8, 91, 29, 138, 247, 81, 132, 240, 188, 1, 250, 213, 141,
      18, 102, 233, 182, 59, 80, 136, 25, 144, 228, 180, 13, 106, 238, 54, 41>>
ZeroHash == [i \in 1..32 |-> 0]
Hashes == {FixtureHash, ZeroHash}

LongScript == [i \in 1..LongScriptLen |-> (i * 7) % 256]
Scripts == {<<>>, <<118, 169>>, LongScript}

\* 5000000 and 18446744073709551615
Amounts == {<<19264, 76, 0, 0>>, <<65535, 65535, 65535, 65535>>}

Outpoints == {[hash |-> h, index |-> i] : h \in Hashes, i \in U32Values}
Inputs == {Input_new(h, <<0, 0>>, s, q) :
             h \in Hashes, s \in Scripts, q \in {<<0, 0>>, <<65535, 65535>>}}
Outputs == {Output_new(v, s) : v \in Amounts, s \in Scripts}

\* the inputs and outputs transactions are assembled from
TxInputs == {Input_new(FixtureHash, <<0, 0>>, <<118, 169>>, <<65535, 65535>>),
             Input_new(ZeroHash, <<0, 0>>, <<>>, <<0, 0>>),
             Input_new(FixtureHash, <<0, 0>>, LongScript, <<65535, 65535>>)}
TxOutputs == {Output_new(<<19264, 76, 0, 0>>, <<118, 169>>),
              Output_new(<<65535, 65535, 65535, 65535>>, <<>>),
              Output_new(<<19264, 76, 0, 0>>, LongScript)}
Transactions ==
    {Transaction_new(<<1, 0>>, i, o, <<0, 0>>) :
        i \in SeqsUpTo(TxInputs, MaxIO), o \in SeqsUpTo(TxOutputs, MaxIO)}

BlockHeaders ==
    {[version |-> v, previous_hash |-> p, merkle_root_hash |-> m,
      timestamp |-> t, bits |-> <<65535, 7424>>, nonce |-> n] :
        v \in {<<1, 0>>, <<65535, 65535>>}, p \in Hashes,
        m \in {double_hash(<<>>), FixtureHash},
        t \in {<<0, 0>>, <<65535, 65535>>}, n \in U32Values}

LeafValues == {<<>>, <<1>>, <<2, 3>>}
LeafLists == SeqsUpTo(LeafValues, MaxLeaves)

\* arguments of Block::new; the payloads are Outputs
Payloads == {Output_new(<<19264, 76, 0, 0>>, <<118, 169>>),
             Output_new(<<0, 0, 0, 0>>, <<>>)}
\* a previous_hash is a caller-supplied Vec<u8>: 32 bytes, or not
ShortHash == [i \in 1..31 |-> 0]
NewArgs ==
    {[version |-> v, previous_hash |-> p, values |-> vs, bits |-> <<65535, 7424>>] :
        v \in {<<0, 0>>, <<1, 0>>, <<2, 0>>}, p \in Hashes \cup {ShortHash},
        vs \in SeqsUpTo(Payloads, MaxPayloads)}
\* time::now() as u32
Clock == {<<0, 0>>, <<49008, 22825>>}
Nonces == {<<1, 0>>, <<65535, 65535>>}

----------------------------------------------------------------------------
(* The state machine: a caller holds an input, applies the operations of   *)
(* the library to it, and may damage a serialized buffer in between.       *)

CodecKinds == {"VarInt", "Outpoint", "Input", "Output", "Transaction", "BlockHeader"}

\* trait Serializable, by record type
Serialize(kind, val) ==
    CASE kind = "VarInt" -> VarInt_serialize(val)
      [] kind = "Outpoint" -> Outpoint_serialize(val)
      [] kind = "Input" -> Input_serialize(val)
      [] kind = "Output" -> Output_serialize(val)
      [] kind = "Transaction" -> Transaction_serialize(val)
      [] kind = "BlockHeader" -> BlockHeader_serialize(val)
      [] kind = "Block" -> Block_serialize(val)

Deserialize(kind, buf) ==
    CASE kind = "VarInt" -> VarInt_deserialize(buf, 1)
      [] kind = "Outpoint" -> Outpoint_deserialize(buf, 1)
      [] kind = "Input" -> Input_deserialize(buf, 1)
      [] kind = "Output" -> Output_deserialize(buf, 1)
      [] kind = "Transaction" -> Transaction_deserialize(buf, 1)
      [] kind = "BlockHeader" -> BlockHeader_deserialize(buf, 1)
      [] kind = "Block" -> Block_deserialize(buf)

NoHeader == [version |-> <<0, 0>>, previous_hash |-> <<>>, merkle_root_hash |-> <<>>,
             timestamp |-> <<0, 0>>, bits |-> <<0, 0>>, nonce |-> <<0, 0>>]
NoBlock == [header |-> NoHeader, data |-> <<>>]
NoResult == [st |-> "none", val |-> <<>>, pos |-> 0]

\* the caller's input: a record to encode, leaves to hash, or Block::new arguments
InitialInput(kind, val) == input = [kind |-> kind, val |-> val]

Init ==
    /\ \/ \E v \in VarIntValues : InitialInput("VarInt", v)
       \/ \E v \in Outpoints : InitialInput("Outpoint", v)
       \/ \E v \in Inputs : InitialInput("Input", v)
       \/ \E v \in Outputs : InitialInput("Output", v)
       \/ \E v \in Transactions : InitialInput("Transaction", v)
       \/ \E v \in BlockHeaders : InitialInput("BlockHeader", v)
       \/ \E v \in LeafLists : InitialInput("Leaves", v)
       \/ \E v \in NewArgs : InitialInput("Block", v)
    /\ block = NoBlock
    /\ built = NoBlock
    /\ nonce_arg = <<>>
    /\ buffer = <<>>
    /\ tamper = "none"
    /\ result = NoResult
    /\ pc = "input"

\* record.serialize() of a VarInt, Outpoint, Input, Output, Transaction or BlockHeader
SerializeRecord ==
    /\ pc = "input"
    /\ input.kind \in CodecKinds
    /\ buffer' = Serialize(input.kind, input.val)
    /\ pc' = "serialized"
    /\ UNCHANGED <<input, block, tamper, result, built, nonce_arg>>

\* T::deserialize(buffer) of the same record types
DeserializeRecord ==
    /\ pc = "serialized"
    /\ input.kind \in CodecKinds
    /\ result' = Deserialize(input.kind, buffer)
    /\ pc' = "deserialized"
    /\ UNCHANGED <<input, block, buffer, tamper, built, nonce_arg>>

\* calculate_merkle(data)
CalculateMerkle ==
    /\ pc = "input"
    /\ input.kind = "Leaves"
    /\ result' = Ok(calculate_merkle(input.val), 0)
    /\ pc' = "merkle"
    /\ UNCHANGED <<input, block, buffer, tamper, built, nonce_arg>>

\* Block::new(version, previous_hash, values, bits)
BlockNew ==
    /\ pc = "input"
    /\ input.kind = "Block"
    /\ \E now \in Clock :
          block' = Block_new(input.val.version, input.val.previous_hash,
                             input.val.values, input.val.bits, now)
    /\ built' = block'
    /\ pc' = "new"
    /\ UNCHANGED <<input, buffer, tamper, result, nonce_arg>>

\* block.set_nonce(nonce)
SetNonce ==
    /\ pc \in {"new", "nonce_set"}
    /\ \E nonce \in Nonces :
          /\ block' = Block_set_nonce(block, nonce)
          /\ nonce_arg' = nonce
    /\ pc' = "nonce_set"
    /\ UNCHANGED <<input, buffer, tamper, result, built>>

\* block.serialize()
BlockSerialize ==
    /\ pc \in {"new", "nonce_set"}
    /\ buffer' = Serialize("Block", block)
    /\ pc' = "serialized"
    /\ UNCHANGED <<input, block, tamper, result, built, nonce_arg>>

\* Block::deserialize(buffer)
BlockDeserialize ==
    /\ pc = "serialized"
    /\ input.kind = "Block"
    /\ result' = Deserialize("Block", buffer)
    /\ pc' = "deserialized"
    /\ UNCHANGED <<input, block, buffer, tamper, built, nonce_arg>>

\* the serialized bytes lose their final byte before they are decoded
Truncate ==
    /\ pc = "serialized"
    /\ tamper = "none"
    /\ buffer # <<>>
    /\ buffer' = SubSeq(buffer, 1, Len(buffer) - 1)
    /\ tamper' = "truncated"
    /\ UNCHANGED <<input, block, result, pc, built, nonce_arg>>

\* the first byte of a serialized block's magic constant is corrupted
CorruptMagic ==
    /\ pc = "serialized"
    /\ tamper = "none"
    /\ input.kind = "Block"
    /\ buffer' = [buffer EXCEPT ![1] = (buffer[1] + 1) % 256]
    /\ tamper' = "corrupted"
    /\ UNCHANGED <<input, block, result, pc, built, nonce_arg>>

Next ==
    \/ SerializeRecord
    \/ DeserializeRecord
    \/ CalculateMerkle
    \/ BlockNew
    \/ SetNonce
    \/ BlockSerialize
    \/ BlockDeserialize
    \/ Truncate
    \/ CorruptMagic

Spec == Init /\ [][Next]_vars

----------------------------------------------------------------------------
(* Properties *)

Decoded(kind) == pc = "deserialized" /\ tamper = "none" /\ input.kind = kind

\* C1: deserialize(serialize(R)) succeeds and returns a record equal to R
\* for every Input, Output and Transaction R, with the inputs and outputs
\* in the order R holds them.
C1_RecordRoundTrip ==
    (Decoded("Input") \/ Decoded("Output") \/ Decoded("Transaction"))
        => /\ result.st = "ok"
           /\ result.val = input.val
           /\ result.pos = Len(buffer) + 1

\* a transaction of two different inputs and two different outputs, one of
\* them with a script of LongScriptLen bytes, has been decoded
C1_Witness ==
    /\ Decoded("Transaction")
    /\ result.st = "ok"
    /\ Len(input.val.inputs) = 2
    /\ Len(input.val.outputs) = 2
    /\ input.val.inputs[1] # input.val.inputs[2]
    /\ input.val.outputs[1] # input.val.outputs[2]
    /\ Len(input.val.outputs[2].txout_script) = LongScriptLen

\* C2: VarInt::serialize picks the form by magnitude alone: one byte up to
\* 252, 0xFD and 16 bits up to 65535, 0xFE and 32 bits up to 4294967295,
\* 0xFF and 64 bits above; 0, 252, 253, 65535, 65536, 4294967295 and
\* 4294967296 take 1, 1, 3, 3, 5, 5 and 9 bytes.
C2_VarIntForms ==
    (pc = "serialized" /\ tamper = "none" /\ input.kind = "VarInt") =>
        LET v == input.val
            lo(l) == l % 256
            hi(l) == l \div 256
            upTo252 == v[1] <= 252 /\ v[2] = 0 /\ v[3] = 0 /\ v[4] = 0
            upTo16 == ~upTo252 /\ v[2] = 0 /\ v[3] = 0 /\ v[4] = 0
            upTo32 == v[2] # 0 /\ v[3] = 0 /\ v[4] = 0
            above == v[3] # 0 \/ v[4] # 0
        IN /\ upTo252 => buffer = <<v[1]>>
           /\ upTo16 => buffer = <<253, lo(v[1]), hi(v[1])>>
           /\ upTo32 => buffer = <<254, lo(v[1]), hi(v[1]), lo(v[2]), hi(v[2])>>
           /\ above => buffer = <<255, lo(v[1]), hi(v[1]), lo(v[2]), hi(v[2]),
                                  lo(v[3]), hi(v[3]), lo(v[4]), hi(v[4])>>
           /\ v = <<0, 0, 0, 0>> => buffer = <<0>>
           /\ v = <<252, 0, 0, 0>> => buffer = <<252>>
           /\ v = <<253, 0, 0, 0>> => buffer = <<253, 253, 0>>
           /\ v = <<65535, 0, 0, 0>> => buffer = <<253, 255, 255>>
           /\ v = <<0, 1, 0, 0>> => buffer = <<254, 0, 0, 1, 0>>
           /\ v = <<65535, 65535, 0, 0>> => buffer = <<254, 255, 255, 255, 255>>
           /\ v = <<0, 0, 1, 0>> => buffer = <<255, 0, 0, 0, 0, 1, 0, 0, 0>>
           /\ v = <<515, 0, 0, 0>> => buffer = <<253, 3, 2>>
           /\ v = <<34464, 1, 0, 0>> => buffer = <<254, 160, 134, 1, 0>>
           /\ v = <<58368, 21515, 2, 0>> => buffer = <<255, 0, 228, 11, 84, 2, 0, 0, 0>>

\* 4294967296, the first value of the 9-byte form, has been serialized
C2_Witness ==
    /\ pc = "serialized" /\ tamper = "none" /\ input.kind = "VarInt"
    /\ input.val = <<0, 0, 1, 0>>
    /\ Len(buffer) = 9

\* C3: VarInt::deserialize(VarInt(v).serialize()) succeeds and returns v,
\* for every u64 v.
C3_VarIntRoundTrip ==
    Decoded("VarInt") => result.st = "ok" /\ result.val = input.val

\* 18446744073709551615 has gone through serialize and deserialize
C3_Witness ==
    /\ Decoded("VarInt")
    /\ input.val = <<65535, 65535, 65535, 65535>>
    /\ result.st = "ok"

\* one reduction step as the claims describe it: consecutive pairs in order,
\* an unpaired last hash paired with itself
MerkleLevel(level) ==
    [k \in 1..((Len(level) + 1) \div 2) |->
        double_hash(level[2 * k - 1]
                    \o (IF 2 * k <= Len(level) THEN level[2 * k] ELSE level[2 * k - 1]))]

RECURSIVE MerkleReduce(_)
MerkleReduce(level) ==
    IF Len(level) = 1 THEN level[1] ELSE MerkleReduce(MerkleLevel(level))

LeafHashes(leaves) == [i \in 1..Len(leaves) |-> double_hash(leaves[i])]

\* C4: every reduction step of calculate_merkle pairs consecutive hashes in
\* order and pairs an unpaired last hash with itself; for three leaves
\* [A, B, C] the root is dh(dh(dh(A) ++ dh(B)) ++ dh(dh(C) ++ dh(C))).
C4_MerklePairing ==
    (pc = "merkle" /\ Len(input.val) >= 2) =>
        /\ result.val = MerkleReduce(LeafHashes(input.val))
        /\ Len(input.val) = 3 =>
              LET A == input.val[1]
                  B == input.val[2]
                  C == input.val[3]
              IN result.val =
                    double_hash(double_hash(double_hash(A) \o double_hash(B))
                                \o double_hash(double_hash(C) \o double_hash(C)))

\* the root of three different leaves has been computed
C4_Witness ==
    /\ pc = "merkle"
    /\ Len(input.val) = 3
    /\ input.val[1] # input.val[2]
    /\ input.val[2] # input.val[3]
    /\ input.val[1] # input.val[3]
    /\ result.st = "ok"

\* C5: calculate_merkle of no leaves is Ok(double_hash of no bytes), and a
\* block built from no payloads carries that value as its merkle root.
C5_EmptyMerkle ==
    /\ (pc = "merkle" /\ input.val = <<>>) =>
          result.st = "ok" /\ result.val = double_hash(<<>>)
    /\ (input.kind = "Block" /\ pc # "input" /\ input.val.values = <<>>) =>
          block.header.merkle_root_hash = double_hash(<<>>)

\* a block has been built from no payloads
C5_Witness ==
    /\ input.kind = "Block"
    /\ pc = "new"
    /\ input.val.values = <<>>
    /\ block.data = <<>>
    /\ Len(block.header.merkle_root_hash) = DigestLen

\* C6: the block Block::new returns has the merkle root of the payloads'
\* serializations in the given order, nonce 0, the version, previous_hash
\* and bits it was given, and the payloads themselves in the same order.
C6_BlockNew ==
    (input.kind = "Block" /\ pc = "new") =>
        /\ block.header.merkle_root_hash =
              calculate_merkle([i \in 1..Len(input.val.values) |->
                                   Output_serialize(input.val.values[i])])
        /\ block.header.nonce = <<0, 0>>
        /\ block.header.version = input.val.version
        /\ block.header.previous_hash = input.val.previous_hash
        /\ block.header.bits = input.val.bits
        /\ block.data = input.val.values

\* a block has been built from payloads that differ
C6_Witness ==
    /\ input.kind = "Block"
    /\ pc = "new"
    /\ Len(block.data) >= 2
    /\ block.data[1] # block.data[2]

RECURSIVE Flatten(_)
Flatten(seqs) == IF seqs = <<>> THEN <<>> ELSE Head(seqs) \o Flatten(Tail(seqs))

\* C7: a serialized block is the magic constant F9 BE B4 D9, a 4-byte
\* little-endian length, the serialized header, the VarInt payload count and
\* the payloads' serializations in order; the length is the number of bytes
\* after it, the size of the whole output less 8.
C7_BlockLayout ==
    (input.kind = "Block" /\ pc = "serialized" /\ tamper = "none") =>
        LET header == BlockHeader_serialize(block.header)
            count == VarInt_serialize(U64Of(Len(block.data)))
            items == Flatten([i \in 1..Len(block.data) |-> Output_serialize(block.data[i])])
            h == 8 + Len(header)
            c == h + Len(count)
        IN /\ Len(buffer) = c + Len(items)
           /\ SubSeq(buffer, 1, 4) = <<249, 190, 180, 217>>
           /\ buffer[5] + 256 * buffer[6] = Len(buffer) - 8
           /\ buffer[7] = 0 /\ buffer[8] = 0
           /\ SubSeq(buffer, 9, h) = header
           /\ SubSeq(buffer, h + 1, c) = count
           /\ SubSeq(buffer, c + 1, Len(buffer)) = items

\* a block of at least two payloads has been serialized
C7_Witness ==
    /\ input.kind = "Block" /\ pc = "serialized" /\ tamper = "none"
    /\ Len(block.data) >= 2
    /\ Len(buffer) > 8 + 80 + 1

\* C8: Block::deserialize(B.serialize()) succeeds and returns B's header,
\* field for field, and as many payloads as B has, for every block B that
\* Block::new builds (here from a previous_hash of 32 bytes).
C8_BlockRoundTrip ==
    (Decoded("Block") /\ Len(input.val.previous_hash) = 32) =>
        /\ result.st = "ok"
        /\ result.val.header = block.header
        /\ Len(result.val.data) = Len(block.data)

\* C9: Block::deserialize reports a buffer whose first four bytes are not
\* the magic constant as an error result; it never panics, whatever the
\* buffer.
C9_BadMagicIsAnError ==
    (input.kind = "Block" /\ pc = "deserialized") =>
        /\ result.st # "panic"
        /\ tamper = "corrupted" => result.st \notin {"ok", "panic"}

\* C10: for every record type, decoding the serialization of a valid record
\* with its final byte removed returns the truncated-input error
\* (io::ErrorKind::UnexpectedEof) and no record.
C10_TruncatedInput ==
    (pc = "deserialized" /\ tamper = "truncated") =>
        result.st = "eof" /\ result.val = <<>>

\* a transaction with inputs and outputs, cut by one byte, has been decoded
C10_Witness ==
    /\ pc = "deserialized" /\ tamper = "truncated"
    /\ input.kind = "Transaction"
    /\ Len(input.val.inputs) >= 1
    /\ Len(input.val.outputs) >= 1
    /\ buffer = SubSeq(Transaction_serialize(input.val), 1, Len(buffer))
    /\ Len(buffer) = Len(Transaction_serialize(input.val)) - 1
    /\ result.st = "eof"

\* C11: a serialized BlockHeader is exactly 80 bytes for every header the
\* program can hold, the header of every block Block::new builds from a
\* caller-supplied previous_hash included, and
\* BlockHeader::deserialize(h.serialize()) returns a header equal to h.
C11_HeaderIs80Bytes ==
    /\ (input.kind = "BlockHeader" /\ pc = "serialized" /\ tamper = "none") =>
          Len(buffer) = 80
    /\ Decoded("BlockHeader") =>
          result.st = "ok" /\ result.val = input.val
    /\ (input.kind = "Block" /\ pc \in {"new", "nonce_set"}) =>
          LET bytes == BlockHeader_serialize(block.header)
              back == BlockHeader_deserialize(bytes, 1)
          IN /\ Len(bytes) = 80
             /\ back.st = "ok"
             /\ back.val = block.header

\* C12: after any sequence of set_nonce calls the header's nonce is the value
\* of the last call, and version, previous_hash, merkle_root_hash, timestamp,
\* bits and the payload sequence are as Block::new left them; the merkle root
\* is still calculate_merkle of the payloads' serializations.
C12_SetNonceFrame ==
    nonce_arg # <<>> =>
        /\ block.header.nonce = nonce_arg
        /\ block.header.version = built.header.version
        /\ block.header.previous_hash = built.header.previous_hash
        /\ block.header.merkle_root_hash = built.header.merkle_root_hash
        /\ block.header.timestamp = built.header.timestamp
        /\ block.header.bits = built.header.bits
        /\ block.data = built.data
        /\ block.header.merkle_root_hash =
              calculate_merkle([i \in 1..Len(block.data) |->
                                   Output_serialize(block.data[i])])

\* set_nonce has been called, last with 4294967295, on a block of two
\* payloads built at a clock reading other than 0
C12_Witness ==
    /\ pc = "nonce_set"
    /\ nonce_arg = <<65535, 65535>>
    /\ block.header.nonce = <<65535, 65535>>
    /\ built.header.nonce = <<0, 0>>
    /\ built.header.timestamp # <<0, 0>>
    /\ Len(block.data) = 2

\* C13: Block::deserialize reads the header from the first 80 bytes of the
\* framed buffer, the VarInt payload count from the bytes right after those
\* 80, and each payload from where the previous one ended: the count it uses
\* is the one the serializer wrote and the i-th payload it parses is the i-th
\* payload serialized (here for blocks with a previous_hash of 32 bytes).
C13_PayloadsParsedInOrder ==
    (Decoded("Block") /\ Len(input.val.previous_hash) = 32) =>
        LET locals == Block_deserialize_locals(buffer)
        IN /\ locals.st = "ok"
           /\ locals.val.header = block.header
           /\ locals.val.data_size = U64Of(Len(block.data))
           /\ locals.val.data = block.data

\* C14: calculate_merkle applies a reduction step only while the level holds
\* more than one hash; for one leaf [A] the first level is already a single
\* hash, so the root is double_hash(A), with no pairing and no
\* self-duplication.
C14_OneLeafRoot ==
    (pc = "merkle" /\ input.val # <<>>) =>
        /\ result.val = MerkleReduce(LeafHashes(input.val))
        /\ Len(input.val) = 1 => result.val = double_hash(input.val[1])

\* the list L followed by a second copy of its last element
DuplicateLast(L) == Append(L, L[Len(L)])

\* C15: for every leaf list L of odd length, calculate_merkle(L) equals
\* calculate_merkle(L followed by a second copy of its last leaf): two
\* different payload lists, and two blocks of different payload counts,
\* commit to the same merkle root.
C15_DuplicateLastSameRoot ==
    /\ (pc = "merkle" /\ Len(input.val) % 2 = 1) =>
          /\ result.st = "ok"
          /\ result.val = calculate_merkle(DuplicateLast(input.val))
    /\ (input.kind = "Block" /\ pc = "new" /\ Len(input.val.values) % 2 = 1) =>
          LET other == Block_new(input.val.version, input.val.previous_hash,
                                 DuplicateLast(input.val.values), input.val.bits,
                                 block.header.timestamp)
          IN /\ Len(other.data) = Len(block.data) + 1
             /\ other.header.merkle_root_hash = block.header.merkle_root_hash

\* the root of three leaves, the last unlike the second, has been computed:
\* it is the root of the four leaves that repeat the last, and not the root
\* of the four leaves that repeat the second
C15_Witness ==
    /\ pc = "merkle"
    /\ Len(input.val) = 3
    /\ input.val[2] # input.val[3]
    /\ result.val = calculate_merkle(DuplicateLast(input.val))
    /\ result.val # calculate_merkle(Append(input.val, input.val[2]))

====
